---- MODULE Spec2Model ----
(***************************************************************************)
(* A model of the Wordle session of src/utils/wordle.rs: the scoring of a  *)
(* guess (compare), the keyboard hints (update_status) and the game loop   *)
(* (handle_input, run, game_restart).                                      *)
(***************************************************************************)
EXTENDS Integers, Sequences, FiniteSets, TLC

VARIABLES
    round,        \* Wordle.round: u8
    valid_words,  \* Wordle.valid_words: HashSet<String>
    used_chars,   \* Wordle.used_chars: HashMap<char, TileState>
    answer,       \* Wordle.answer: String
    history,      \* Wordle.history: Vec<Word>
    current,      \* Wordle.current: String
    solved,       \* Wordle.solved: bool
    err_msg,      \* Wordle.err_msg: String
    running,      \* FALSE once the loop of run has been left (Esc)
    guess,        \* the local `guess: Word` that compare scores in place
    phase,        \* how far the local guess has been processed
    last_key      \* observer: the key event read last, see KeyEvent

vars == <<round, valid_words, used_chars, answer, history, current, solved,
          err_msg, running, guess, phase, last_key>>

session == <<round, valid_words, used_chars, answer, history, current, solved,
             err_msg, running>>

(***************************************************************************)
(* Constants of the program.                                               *)
(***************************************************************************)
ROUND == 6
WORD_LEN == 5

\* TileState
Correct == "Correct"
Present == "Present"
Absent == "Absent"
Unused == "Unused"
TileState == {Correct, Present, Absent, Unused}

\* 'A'..='Z'
Alphabet ==
    <<"A", "B", "C", "D", "E", "F", "G", "H", "I", "J", "K", "L", "M",
      "N", "O", "P", "Q", "R", "S", "T", "U", "V", "W", "X", "Y", "Z">>
AZ == {Alphabet[i] : i \in DOMAIN Alphabet}

(***************************************************************************)
(* Bounds of the model.                                                    *)
(***************************************************************************)
\* compare is applied to guesses and answers over the first NumLetters letters
NumLetters == 4

FirstLetters(n) == {Alphabet[i] : i \in 1..n}

\* the words of the scenarios of compare_test
ScenarioWords ==
    { <<"C", "R", "A", "T", "E">>, <<"C", "A", "T", "E", "R">>,
      <<"H", "O", "U", "N", "D">>, <<"A", "M", "O", "N", "G">>,
      <<"T", "R", "A", "I", "T">>, <<"T", "X", "T", "X", "T">>,
      <<"T", "X", "T", "T", "X">> }

\* the guesses: every word over the letters, and the words of the scenarios
CompareWords == [1..WORD_LEN -> FirstLetters(NumLetters)] \cup ScenarioWords

LetterIndex(c) == CHOOSE k \in DOMAIN Alphabet : Alphabet[k] = c

\* compare reads letters only through equality, so the answers are taken up
\* to a renaming of the letters: the first letter of an answer is A, the next
\* letter that differs from the earlier ones is B, and so on
InOrderOfAppearance(word) ==
    \A i \in DOMAIN word :
        LetterIndex(word[i]) <= 1 + Cardinality({word[j] : j \in 1..(i - 1)})

\* the answers: every pattern of equal and different letters, and the words
\* of the scenarios
CompareAnswers ==
    {w \in [1..WORD_LEN -> FirstLetters(NumLetters)] : InOrderOfAppearance(w)}
        \cup ScenarioWords

(***************************************************************************)
(* Word::from: one tile per letter, every tile Absent.                     *)
(***************************************************************************)
WordFrom(word) ==
    [i \in 1..Len(word) |-> [letter |-> word[i], state |-> Absent]]

(***************************************************************************)
(* compare                                                                 *)
(***************************************************************************)
\* answer_map: letter -> number of occurrences, for the letters of the answer
AnswerMap(ans) ==
    [c \in {ans[i] : i \in DOMAIN ans} |->
        Cardinality({i \in DOMAIN ans : ans[i] = c})]

\* a decrement that is left out
DecForgotten(val) == val

\* `*val -= 1` on a u8
Dec(val) == (val + 255) % 256

\* a first loop that takes a letter for a match wherever the answer has it
RECURSIVE CheckCorrectAnywhere(_, _, _, _)
CheckCorrectAnywhere(letters, answer_vec, answer_map, i) ==
    IF i > Len(letters)
    THEN [letters |-> letters, answer_map |-> answer_map]
    ELSE IF /\ letters[i].letter \in DOMAIN answer_map
            /\ answer_map[letters[i].letter] > 0
         THEN CheckCorrectAnywhere(
                  [letters EXCEPT ![i].state = Correct],
                  answer_vec,
                  [answer_map EXCEPT ![letters[i].letter] = Dec(@)],
                  i + 1)
         ELSE CheckCorrectAnywhere(letters, answer_vec, answer_map, i + 1)

\* first loop of compare: positional matches, from index i on
RECURSIVE CheckCorrect(_, _, _, _)
CheckCorrect(letters, answer_vec, answer_map, i) ==
    IF i > Len(letters)
    THEN [letters |-> letters, answer_map |-> answer_map]
    ELSE IF answer_vec[i] = letters[i].letter
         THEN CheckCorrect(
                  [letters EXCEPT ![i].state = Correct],
                  answer_vec,
                  IF letters[i].letter \in DOMAIN answer_map
                  THEN [answer_map EXCEPT ![letters[i].letter] = Dec(@)]
                  ELSE answer_map,
                  i + 1)
         ELSE CheckCorrect(letters, answer_vec, answer_map, i + 1)

\* the second loop without its `continue`: every tile is scored again
RECURSIVE CheckPresentNoSkip(_, _, _)
CheckPresentNoSkip(letters, answer_map, i) ==
    IF i > Len(letters)
    THEN letters
    ELSE IF letters[i].letter \in DOMAIN answer_map
            /\ answer_map[letters[i].letter] > 0
         THEN CheckPresentNoSkip(
                  [letters EXCEPT ![i].state = Present],
                  [answer_map EXCEPT ![letters[i].letter] = (@ + 255) % 256],
                  i + 1)
         ELSE CheckPresentNoSkip(
                  [letters EXCEPT ![i].state = Absent], answer_map, i + 1)

\* the second loop walking the tiles from the right, from index j down
RECURSIVE CheckPresentFromRight(_, _, _)
CheckPresentFromRight(letters, answer_map, j) ==
    IF j < 1
    THEN letters
    ELSE IF letters[j].state = Correct
         THEN CheckPresentFromRight(letters, answer_map, j - 1)
         ELSE IF letters[j].letter \in DOMAIN answer_map
                 /\ answer_map[letters[j].letter] > 0
              THEN CheckPresentFromRight(
                       [letters EXCEPT ![j].state = Present],
                       [answer_map EXCEPT ![letters[j].letter] = (@ + 255) % 256],
                       j - 1)
              ELSE CheckPresentFromRight(
                       [letters EXCEPT ![j].state = Absent],
                       answer_map, j - 1)

CheckPresentReversed(letters, answer_map, i) ==
    CheckPresentFromRight(letters, answer_map, Len(letters))

\* the second loop skipping every tile that already has a score
RECURSIVE CheckPresentOnlyUnscored(_, _, _)
CheckPresentOnlyUnscored(letters, answer_map, i) ==
    IF i > Len(letters)
    THEN letters
    ELSE IF letters[i].state # Absent
         THEN CheckPresentOnlyUnscored(letters, answer_map, i + 1)
         ELSE IF letters[i].letter \in DOMAIN answer_map
                 /\ answer_map[letters[i].letter] > 0
              THEN CheckPresentOnlyUnscored(
                       [letters EXCEPT ![i].state = Present],
                       [answer_map EXCEPT ![letters[i].letter] = (@ + 255) % 256],
                       i + 1)
              ELSE CheckPresentOnlyUnscored(letters, answer_map, i + 1)

\* second loop of compare: present and absent letters, from index i on
RECURSIVE CheckPresent(_, _, _)
CheckPresent(letters, answer_map, i) ==
    IF i > Len(letters)
    THEN letters
    ELSE IF letters[i].state = Correct
         THEN CheckPresent(letters, answer_map, i + 1)
         ELSE IF letters[i].letter \in DOMAIN answer_map
                 /\ answer_map[letters[i].letter] > 0
              THEN CheckPresent(
                       [letters EXCEPT ![i].state = Present],
                       [answer_map EXCEPT ![letters[i].letter] = Dec(@)],
                       i + 1)
              ELSE CheckPresent(
                       [letters EXCEPT ![i].state = Absent],
                       answer_map, i + 1)

\* both loops of compare fused into one pass over the tiles
RECURSIVE SinglePass(_, _, _, _)
SinglePass(letters, answer_vec, answer_map, i) ==
    IF i > Len(letters)
    THEN letters
    ELSE LET c == letters[i].letter
         IN  IF answer_vec[i] = c
             THEN SinglePass([letters EXCEPT ![i].state = Correct], answer_vec,
                             [answer_map EXCEPT ![c] = (@ + 255) % 256], i + 1)
             ELSE IF c \in DOMAIN answer_map /\ answer_map[c] > 0
             THEN SinglePass([letters EXCEPT ![i].state = Present], answer_vec,
                             [answer_map EXCEPT ![c] = (@ + 255) % 256], i + 1)
             ELSE SinglePass([letters EXCEPT ![i].state = Absent], answer_vec,
                             answer_map, i + 1)

CompareSinglePass(ans, user_input) ==
    SinglePass(user_input, ans, AnswerMap(ans), 1)

\* Wordle::compare(&self, user_input): the scored letters of user_input
Compare(ans, user_input) ==
    LET pass1 == CheckCorrect(user_input, ans, AnswerMap(ans), 1)
    IN  CheckPresent(pass1.letters, pass1.answer_map, 1)

(***************************************************************************)
(* Wordle::new                                                             *)
(***************************************************************************)
WordList ==
    { <<"B", "A", "B", "B", "B">>, <<"A", "A", "B", "B", "B">>,
      <<"B", "A", "A", "B", "B">> }

\* a word set with one word
OneWordList == { <<"A", "A", "B", "B", "B">> }

\* the word sets a session is constructed with
WordLists == {WordList, OneWordList}

\* the loop of Wordle::new over 'A'..'Z', a range without its last letter
NewUsedCharsExclusive == [c \in AZ \ {"Z"} |-> Unused]

NewUsedChars == [c \in AZ |-> Unused]

\* the rows of the keyboard that update_screen and render_keyboard draw
Qwerty ==
    << <<"Q", "W", "E", "R", "T", "Y", "U", "I", "O", "P">>,
       <<"A", "S", "D", "F", "G", "H", "J", "K", "L">>,
       <<"Z", "X", "C", "V", "B", "N", "M">> >>

\* the keyboard: `match used_chars.get(&ch)` reaches unreachable!() for a
\* letter of a row that has no entry in the map
KeyboardUnreachable(used) ==
    \E r \in DOMAIN Qwerty : \E k \in DOMAIN Qwerty[r] :
        Qwerty[r][k] \notin DOMAIN used

New(words, ans) ==
    /\ round = 1
    /\ valid_words = words
    /\ used_chars = NewUsedChars
    /\ answer = ans
    /\ history = <<>>
    /\ current = <<>>
    /\ solved = FALSE
    /\ err_msg = ""
    /\ running = TRUE

(***************************************************************************)
(* Characters and strings.  A String is a sequence of chars; a char is a   *)
(* one-character string, except the non-ASCII char, which is named.        *)
(***************************************************************************)
Lowercase ==
    <<"a", "b", "c", "d", "e", "f", "g", "h", "i", "j", "k", "l", "m",
      "n", "o", "p", "q", "r", "s", "t", "u", "v", "w", "x", "y", "z">>

\* U+00E9, two bytes in UTF-8
EAcute == "e-acute"
\* U+00A0, the no-break space: white space, two bytes in UTF-8
Nbsp == "nbsp"
NonAscii == {EAcute, Nbsp}
Whitespace == {" ", Nbsp}

\* char::to_ascii_uppercase
CharToAsciiUppercase(ch) ==
    IF \E i \in DOMAIN Lowercase : Lowercase[i] = ch
    THEN Alphabet[CHOOSE i \in DOMAIN Lowercase : Lowercase[i] = ch]
    ELSE ch

\* str::to_ascii_uppercase
ToAsciiUppercase(s) == [i \in 1..Len(s) |-> CharToAsciiUppercase(s[i])]

\* char::len_utf8
LenUtf8(ch) == IF ch \in NonAscii THEN 2 ELSE 1

\* str::len, in bytes
RECURSIVE StrLen(_)
StrLen(s) == IF s = <<>> THEN 0 ELSE LenUtf8(Head(s)) + StrLen(Tail(s))

\* a test for ASCII letters instead of ASCII chars
IsAsciiLetters(s) ==
    \A i \in DOMAIN s :
        \/ \E k \in DOMAIN Alphabet : Alphabet[k] = s[i]
        \/ \E k \in DOMAIN Lowercase : Lowercase[k] = s[i]

\* str::is_ascii
IsAscii(s) == \A i \in DOMAIN s : s[i] \notin NonAscii

\* str::trim
RECURSIVE TrimStart(_)
TrimStart(s) ==
    IF s # <<>> /\ Head(s) \in Whitespace THEN TrimStart(Tail(s)) ELSE s

RECURSIVE TrimEnd(_)
TrimEnd(s) ==
    IF s # <<>> /\ s[Len(s)] \in Whitespace
    THEN TrimEnd(SubSeq(s, 1, Len(s) - 1))
    ELSE s

Trim(s) == TrimEnd(TrimStart(s))

(***************************************************************************)
(* parse_input                                                             *)
(***************************************************************************)
\* Word::from, the check before the tiles are built: the message of its
\* panic, if any, for the tiles of a word of word.len() bytes
WordFromPanic(tiles) ==
    IF StrLen([i \in DOMAIN tiles |-> tiles[i].letter]) # 5
    THEN "word should have length 5"
    ELSE ""

\* a parse_input without its test of the length
ParseInputNoLengthCheck(words, input) ==
    LET trimmed_input == Trim(input)
    IN  IF ~IsAscii(trimmed_input)
        THEN [ok |-> FALSE, err |-> "not ascii"]
        ELSE IF ToAsciiUppercase(trimmed_input) \notin words
        THEN [ok |-> FALSE, err |-> "invalid word"]
        ELSE [ok |-> TRUE, word |-> WordFrom(ToAsciiUppercase(trimmed_input))]

\* a parse_input that tests the length before it tests for ASCII
ParseInputLengthFirst(words, input) ==
    LET trimmed_input == Trim(input)
    IN  IF StrLen(trimmed_input) # WORD_LEN
        THEN [ok |-> FALSE, err |-> "incorrect word length"]
        ELSE IF ~IsAscii(trimmed_input)
        THEN [ok |-> FALSE, err |-> "not ascii"]
        ELSE IF ToAsciiUppercase(trimmed_input) \notin words
        THEN [ok |-> FALSE, err |-> "invalid word"]
        ELSE [ok |-> TRUE, word |-> WordFrom(ToAsciiUppercase(trimmed_input))]

ParseInput(words, input) ==
    LET trimmed_input == Trim(input)
    IN  IF ~IsAscii(trimmed_input)
        THEN [ok |-> FALSE, err |-> "not ascii"]
        ELSE IF StrLen(trimmed_input) # WORD_LEN
        THEN [ok |-> FALSE, err |-> "incorrect word length"]
        ELSE IF ToAsciiUppercase(trimmed_input) \notin words
        THEN [ok |-> FALSE, err |-> "invalid word"]
        ELSE [ok |-> TRUE, word |-> WordFrom(ToAsciiUppercase(trimmed_input))]

(***************************************************************************)
(* update_status                                                           *)
(***************************************************************************)
\* a merge that overwrites the hint with the state of the tile
MergeOverwrite(used_state, tile_state) == tile_state

\* a merge that does not record a tile that is Absent
MergeIgnoresAbsent(used_state, tile_state) ==
    IF /\ tile_state # Absent
       /\ used_state = Unused \/ (used_state = Present /\ tile_state = Correct)
    THEN tile_state
    ELSE used_state

\* the new hint of a letter whose hint is used_state, for a tile in tile_state
MergeState(used_state, tile_state) ==
    IF used_state = Unused \/ (used_state = Present /\ tile_state = Correct)
    THEN tile_state
    ELSE used_state

\* used_chars.entry(letter).or_insert(Unused)
OrInsertUnused(used, letter) ==
    IF letter \in DOMAIN used THEN used ELSE (letter :> Unused) @@ used

\* the loop of update_status over the tiles of result, from index i on
RECURSIVE UpdateUsedChars(_, _, _)
UpdateUsedChars(used, letters, i) ==
    IF i > Len(letters)
    THEN used
    ELSE LET entry == OrInsertUnused(used, letters[i].letter)
         IN  UpdateUsedChars(
                 [entry EXCEPT ![letters[i].letter] =
                     MergeState(@, letters[i].state)],
                 letters, i + 1)

\* the local `solved` of update_status
AllCorrect(letters) == \A i \in DOMAIN letters : letters[i].state = Correct

(***************************************************************************)
(* The game loop: handle_input and run.                                    *)
(***************************************************************************)
\* the letters a player types in the model: the first NumKeys letters
NumKeys == 2

KeyChars == FirstLetters(NumKeys) \cup {Lowercase[1]}

\* the same letters, a blank and a char that is not ASCII
WideKeyChars == KeyChars \cup {" ", EAcute}

\* a draw from some other list than the one passed in
DrawWordFromWordList(words) == WordList

\* draw_word, words.iter().choose(): any member of the set, none if empty
DrawWord(words) == words

\* a draw_word without its check for the empty set
DrawWordPanicNoCheck(words) == ""

\* draw_word, the check before the draw: the message of its panic, if any
DrawWordPanic(words) ==
    IF words = {} THEN "Error: empty word set" ELSE ""

\* the guard without its test of solved, as in src/main.rs
CanPlayIgnoresSolved == round <= 6

\* the guard without its bound on the round
CanPlayNoRoundBound == ~solved

\* the guard with the round bound off by one
CanPlayOffByOne == round <= 7 /\ ~solved

\* the guard of the Char, Backspace and Enter arms of handle_input
CanPlay == round <= 6 /\ ~solved

\* a popup that looks at the round counter before the solved flag
GameStateRoundFirst ==
    IF round > ROUND THEN "Lost" ELSE IF solved THEN "Won" ELSE "Playing"

\* what update_screen shows: the popup of a finished game, won or lost
GameState ==
    IF solved \/ round > ROUND
    THEN IF solved THEN "Won" ELSE "Lost"
    ELSE "Playing"

\* no key event recorded
NoKey == [key |-> "", state |-> ""]

\* the observation of a key event: the key and the state of the game it
\* arrives in.  Only Tab and the keys that arrive in a finished game are
\* recorded; the program has no such field.
KeyEvent(key) ==
    IF key = "Tab" \/ GameState # "Playing"
    THEN [key |-> key, state |-> GameState]
    ELSE NoKey

Init ==
    /\ \E words \in WordLists : \E a \in DrawWord(words) : New(words, a)
    /\ guess = <<>>
    /\ phase = "loop"
    /\ last_key = NoKey

\* KeyCode::Esc: run leaves its loop
KeyEsc ==
    /\ running
    /\ running' = FALSE
    /\ last_key' = KeyEvent("Esc")
    /\ UNCHANGED <<round, valid_words, used_chars, answer, history, current,
                   solved, err_msg, guess, phase>>

\* a restart that leaves the hints of the last game on the keyboard
KeyTabKeepsHints ==
    /\ running
    /\ round' = 1
    /\ \E a \in DrawWord(valid_words) : answer' = a
    /\ history' = <<>>
    /\ current' = <<>>
    /\ solved' = FALSE
    /\ err_msg' = ""
    /\ last_key' = KeyEvent("Tab")
    /\ UNCHANGED <<used_chars, valid_words, running, guess, phase>>

\* KeyCode::Tab: game_restart
KeyTab ==
    /\ running
    /\ round' = 1
    /\ used_chars' = [c \in DOMAIN used_chars |-> Unused]
    /\ \E a \in DrawWord(valid_words) : answer' = a
    /\ history' = <<>>
    /\ current' = <<>>
    /\ solved' = FALSE
    /\ err_msg' = ""
    /\ last_key' = KeyEvent("Tab")
    /\ UNCHANGED <<valid_words, running, guess, phase>>

\* KeyCode::Char(ch), for the chars of keys
KeyCharIn(keys) ==
    /\ running
    /\ \E ch \in keys :
           current' = IF CanPlay /\ StrLen(current) < 5
                      THEN Append(current, CharToAsciiUppercase(ch))
                      ELSE current
    /\ last_key' = KeyEvent("Char")
    /\ UNCHANGED <<round, valid_words, used_chars, answer, history, solved,
                   err_msg, running, guess, phase>>

KeyChar == KeyCharIn(KeyChars)

\* KeyCode::Backspace
KeyBackspace ==
    /\ running
    /\ current' = IF CanPlay /\ current # <<>>
                  THEN SubSeq(current, 1, Len(current) - 1)
                  ELSE current
    /\ last_key' = KeyEvent("Backspace")
    /\ UNCHANGED <<round, valid_words, used_chars, answer, history, solved,
                   err_msg, running, guess, phase>>

\* a Submit arm that clears the input also when it rejects it
SubmitClearsRejected ==
    LET parsed == ParseInput(valid_words, current)
    IN  IF ~parsed.ok
        THEN /\ err_msg' = parsed.err
             /\ current' = <<>>
             /\ UNCHANGED <<round, used_chars, history, solved>>
        ELSE LET scored == Compare(answer, parsed.word)
             IN  /\ err_msg' = ""
                 /\ history' = Append(history, scored)
                 /\ used_chars' = UpdateUsedChars(used_chars, scored, 1)
                 /\ solved' = AllCorrect(scored)
                 /\ round' = (round + 1) % 256
                 /\ current' = <<>>

\* a Submit arm that counts a rejected submission as a round
SubmitCountsRejected ==
    LET parsed == ParseInput(valid_words, current)
    IN  IF ~parsed.ok
        THEN /\ err_msg' = parsed.err
             /\ round' = (round + 1) % 256
             /\ UNCHANGED <<used_chars, history, current, solved>>
        ELSE LET scored == Compare(answer, parsed.word)
             IN  /\ err_msg' = ""
                 /\ history' = Append(history, scored)
                 /\ used_chars' = UpdateUsedChars(used_chars, scored, 1)
                 /\ solved' = AllCorrect(scored)
                 /\ round' = (round + 1) % 256
                 /\ current' = <<>>

\* a Submit arm that puts the scored word in front of the history
SubmitPrepends ==
    LET parsed == ParseInput(valid_words, current)
    IN  IF ~parsed.ok
        THEN /\ err_msg' = parsed.err
             /\ UNCHANGED <<round, used_chars, history, current, solved>>
        ELSE LET scored == Compare(answer, parsed.word)
             IN  /\ err_msg' = ""
                 /\ history' = <<scored>> \o history
                 /\ used_chars' = UpdateUsedChars(used_chars, scored, 1)
                 /\ solved' = AllCorrect(scored)
                 /\ round' = (round + 1) % 256
                 /\ current' = <<>>

\* a Submit arm that leaves the accepted input in the buffer
SubmitKeepsBuffer ==
    LET parsed == ParseInput(valid_words, current)
    IN  IF ~parsed.ok
        THEN /\ err_msg' = parsed.err
             /\ UNCHANGED <<round, used_chars, history, current, solved>>
        ELSE LET scored == Compare(answer, parsed.word)
             IN  /\ err_msg' = ""
                 /\ history' = Append(history, scored)
                 /\ used_chars' = UpdateUsedChars(used_chars, scored, 1)
                 /\ solved' = AllCorrect(scored)
                 /\ round' = (round + 1) % 256
                 /\ UNCHANGED current

\* the Submit arm of run
Submit ==
    LET parsed == ParseInput(valid_words, current)
    IN  IF ~parsed.ok
        THEN /\ err_msg' = parsed.err
             /\ UNCHANGED <<round, used_chars, history, current, solved>>
        ELSE LET scored == Compare(answer, parsed.word)
             IN  /\ err_msg' = ""
                 /\ history' = Append(history, scored)
                 /\ used_chars' = UpdateUsedChars(used_chars, scored, 1)
                 /\ solved' = AllCorrect(scored)
                 /\ round' = (round + 1) % 256
                 /\ current' = <<>>

\* compare, `answer_vec[i]` for every tile i of the guess: the index is out
\* of bounds when the answer has fewer chars than the guess has tiles
CompareIndexPanic(ans, user_input) == Len(ans) < Len(user_input)

\* the submission of `current` is parsed and ends in a panic, of Word::from
\* or of compare: the message of the panic, if any
SubmitPanic ==
    LET parsed == ParseInput(valid_words, current)
    IN  IF ~parsed.ok THEN ""
        ELSE IF WordFromPanic(parsed.word) # "" THEN WordFromPanic(parsed.word)
        ELSE IF CompareIndexPanic(answer, parsed.word)
        THEN "index out of bounds"
        ELSE ""

SubmitPanics == SubmitPanic # ""

\* KeyCode::Enter
KeyEnter ==
    /\ running
    /\ IF CanPlay /\ SubmitPanics
       THEN /\ err_msg' = ""
            /\ running' = FALSE
            /\ phase' = "panic: " \o SubmitPanic
            /\ UNCHANGED <<round, used_chars, history, current, solved>>
       ELSE /\ IF CanPlay
               THEN Submit
               ELSE UNCHANGED <<round, used_chars, history, current, solved,
                                err_msg>>
            /\ UNCHANGED <<running, phase>>
    /\ last_key' = KeyEvent("Enter")
    /\ UNCHANGED <<valid_words, answer, guess>>

\* any other key, or no key event
KeyOther ==
    /\ running
    /\ last_key' = KeyEvent("Other")
    /\ UNCHANGED <<session, guess, phase>>

Next == KeyEsc \/ KeyTab \/ KeyChar \/ KeyBackspace \/ KeyEnter \/ KeyOther

Spec == Init /\ [][Next]_vars

(***************************************************************************)
(* The same loop with a player who also types a blank and a char that is   *)
(* not ASCII, over a set of two words.                                     *)
(***************************************************************************)
TwoWordList == { <<"B", "A", "B", "B", "B">>, <<"A", "A", "B", "B", "B">> }

InitTyping ==
    /\ \E a \in DrawWord(TwoWordList) : New(TwoWordList, a)
    /\ guess = <<>>
    /\ phase = "loop"
    /\ last_key = NoKey

KeyCharWide == KeyCharIn(WideKeyChars)

NextTyping ==
    KeyEsc \/ KeyTab \/ KeyCharWide \/ KeyBackspace \/ KeyEnter \/ KeyOther

SpecTyping == InitTyping /\ [][NextTyping]_vars

(***************************************************************************)
(* The loop of src/main.rs: handle_input has no guards and no restart, run *)
(* skips a submission only when round > 6.                                 *)
(***************************************************************************)
MainKeyEsc ==
    /\ running
    /\ running' = FALSE
    /\ UNCHANGED <<round, valid_words, used_chars, answer, history, current,
                   solved, err_msg, guess, phase, last_key>>

MainKeyChar ==
    /\ running
    /\ \E ch \in KeyChars :
           current' = IF StrLen(current) < 5
                      THEN Append(current, CharToAsciiUppercase(ch))
                      ELSE current
    /\ UNCHANGED <<round, valid_words, used_chars, answer, history, solved,
                   err_msg, running, guess, phase, last_key>>

MainKeyBackspace ==
    /\ running
    /\ current' = IF current # <<>>
                  THEN SubSeq(current, 1, Len(current) - 1)
                  ELSE current
    /\ UNCHANGED <<round, valid_words, used_chars, answer, history, solved,
                   err_msg, running, guess, phase, last_key>>

\* KeyCode::Enter and the Submit arm of run
MainKeyEnter ==
    /\ running
    /\ IF round <= 6 /\ SubmitPanics
       THEN /\ err_msg' = ""
            /\ running' = FALSE
            /\ phase' = "panic: " \o SubmitPanic
            /\ UNCHANGED <<round, used_chars, history, current, solved>>
       ELSE /\ IF round > 6
               THEN UNCHANGED <<round, used_chars, history, current, solved,
                                err_msg>>
               ELSE Submit
            /\ UNCHANGED <<running, phase>>
    /\ UNCHANGED <<valid_words, answer, guess, last_key>>

\* any other key (Tab is one of them), or no key event
MainKeyOther ==
    /\ running
    /\ UNCHANGED vars

\* main, after Wordle::new: the session exists, run has not been called
InitMain ==
    /\ valid_words = TwoWordList
    /\ \E a \in DrawWord(TwoWordList) : answer = a
    /\ round = 1
    /\ used_chars = NewUsedChars
    /\ history = <<>>
    /\ current = <<>>
    /\ solved = FALSE
    /\ err_msg = ""
    /\ running = FALSE
    /\ guess = <<>>
    /\ phase = "main"
    /\ last_key = NoKey

\* main: dbg!("log answer here: {}", &game.answer) writes the answer to
\* stderr; in phase "dbg" the line has just been written
MainDbg ==
    /\ phase = "main"
    /\ phase' = "dbg"
    /\ UNCHANGED <<session, guess, last_key>>

\* main: game.run()
MainRun ==
    /\ phase = "dbg"
    /\ phase' = "loop"
    /\ running' = TRUE
    /\ UNCHANGED <<round, valid_words, used_chars, answer, history, current,
                   solved, err_msg, guess, last_key>>

NextMain ==
    MainDbg \/ MainRun \/ MainKeyEsc \/ MainKeyChar \/ MainKeyBackspace
        \/ MainKeyEnter \/ MainKeyOther

SpecMain == InitMain /\ [][NextMain]_vars

\* update_screen, drawn at the top of every turn of the loop: the popup of a
\* finished game holds the answer
PopupShowsAnswer == phase = "loop" /\ running /\ (solved \/ round > ROUND)

\* the program has just produced output that holds the answer
AnswerOutput == phase = "dbg" \/ PopupShowsAnswer

(***************************************************************************)
(* The key handler of src/utils/ui.rs, of a session that has the fields    *)
(* is_game_over and show_word_def.  show_word_def is the page on screen:   *)
(* phase is "board" while it is false, a definition page once it is true.  *)
(***************************************************************************)
\* is_game_over: the session is Won or Lost
IsGameOver == solved \/ round > ROUND

\* the pages render_definition_page can draw, by the result of get_word_def
DefinitionPages ==
    {"definition: found", "definition: not found", "definition: offline"}

\* show_word_def; "definition" is the page asked for and not yet drawn
ShowWordDef == phase \in {"definition"} \cup DefinitionPages

InitUi ==
    /\ \E a \in DrawWord(TwoWordList) : New(TwoWordList, a)
    /\ guess = <<>>
    /\ phase = "board"
    /\ last_key = NoKey

UiKeyEsc ==
    /\ running
    /\ running' = FALSE
    /\ UNCHANGED <<round, valid_words, used_chars, answer, history, current,
                   solved, err_msg, guess, phase, last_key>>

\* KeyCode::Tab: game_restart, which leaves the game Playing; whether it
\* also leaves the definition page is not known
UiKeyTab ==
    /\ running
    /\ round' = 1
    /\ used_chars' = [c \in DOMAIN used_chars |-> Unused]
    /\ \E a \in DrawWord(valid_words) : answer' = a
    /\ history' = <<>>
    /\ current' = <<>>
    /\ solved' = FALSE
    /\ err_msg' = ""
    /\ phase' \in {phase, "board"}
    /\ UNCHANGED <<valid_words, running, guess, last_key>>

\* the key '?' outside a finished game
UiKeyQuestionAnyTime ==
    /\ running
    /\ IF ~ShowWordDef
       THEN phase' = "definition" /\ UNCHANGED current
       ELSE /\ current' = IF ~IsGameOver /\ StrLen(current) < WORD_LEN
                          THEN Append(current, "?")
                          ELSE current
            /\ UNCHANGED phase
    /\ UNCHANGED <<round, valid_words, used_chars, answer, history, solved,
                   err_msg, running, guess, last_key>>

\* KeyCode::Char('?'): the arm of the definition page if its guard holds,
\* else the arm of the other chars, else the default arm
UiKeyQuestion ==
    /\ running
    /\ IF IsGameOver /\ ~ShowWordDef
       THEN phase' = "definition" /\ UNCHANGED current
       ELSE /\ current' = IF ~IsGameOver /\ StrLen(current) < WORD_LEN
                          THEN Append(current, "?")
                          ELSE current
            /\ UNCHANGED phase
    /\ UNCHANGED <<round, valid_words, used_chars, answer, history, solved,
                   err_msg, running, guess, last_key>>

\* KeyCode::Char(ch), ch other than '?'
UiKeyChar ==
    /\ running
    /\ \E ch \in KeyChars :
           current' = IF ~IsGameOver /\ StrLen(current) < WORD_LEN
                      THEN Append(current, CharToAsciiUppercase(ch))
                      ELSE current
    /\ UNCHANGED <<round, valid_words, used_chars, answer, history, solved,
                   err_msg, running, guess, phase, last_key>>

UiKeyBackspace ==
    /\ running
    /\ current' = IF ~IsGameOver /\ current # <<>>
                  THEN SubSeq(current, 1, Len(current) - 1)
                  ELSE current
    /\ UNCHANGED <<round, valid_words, used_chars, answer, history, solved,
                   err_msg, running, guess, phase, last_key>>

\* KeyCode::Enter: InputState::Submit, handled as in the Submit arm of run
UiKeyEnter ==
    /\ running
    /\ IF ~IsGameOver
       THEN Submit
       ELSE UNCHANGED <<round, used_chars, history, current, solved, err_msg>>
    /\ UNCHANGED <<valid_words, answer, running, guess, phase, last_key>>

UiKeyOther ==
    /\ running
    /\ UNCHANGED vars

\* render_terminal while show_word_def: render_definition_page draws what
\* get_word_def returns, Some(defs), Some(empty) or None; both take &self
UiRenderDefinition ==
    /\ running
    /\ ShowWordDef
    /\ phase' \in DefinitionPages
    /\ UNCHANGED <<session, guess, last_key>>

NextUi ==
    UiKeyEsc \/ UiKeyTab \/ UiKeyQuestion \/ UiKeyChar \/ UiKeyBackspace
        \/ UiKeyEnter \/ UiKeyOther \/ UiRenderDefinition

SpecUi == InitUi /\ [][NextUi]_vars

(***************************************************************************)
(* parse_input on its own, on every string handle_input can leave in       *)
(* `current`.                                                              *)
(***************************************************************************)
\* the chars typed: letters, a digit, a blank, and two chars that are not
\* ASCII, one of them white space
ParseChars == FirstLetters(NumKeys) \cup {"1", " ", EAcute, Nbsp}

\* handle_input pushes a char only while the string is shorter than 5 bytes
Typeable(s) == \A i \in DOMAIN s : StrLen(SubSeq(s, 1, i - 1)) < 5

TypedStrings ==
    {s \in UNION {[1..n -> ParseChars] : n \in 0..WORD_LEN} : Typeable(s)}

\* a word set read from a file that has a line of two letters
ShortWordList == WordList \cup { <<"A", "B">> }

\* a new session in which the player has typed a string
InitParse ==
    /\ \E words \in {WordList, ShortWordList} :
           /\ valid_words = words
           /\ \E a \in DrawWord(words) : answer = a
    /\ \E s \in TypedStrings : current = s
    /\ round = 1
    /\ used_chars = NewUsedChars
    /\ history = <<>>
    /\ solved = FALSE
    /\ err_msg = ""
    /\ running = TRUE
    /\ guess = <<>>
    /\ phase = "typed"
    /\ last_key = NoKey

\* self.parse_input(&self.current): phase is Ok, the error or the panic of
\* Word::from, guess the word
ParseCurrent ==
    /\ phase = "typed"
    /\ LET parsed == ParseInput(valid_words, current)
       IN  IF parsed.ok /\ WordFromPanic(parsed.word) # ""
           THEN /\ phase' = "panic: " \o WordFromPanic(parsed.word)
                /\ guess' = <<>>
           ELSE /\ phase' = IF parsed.ok THEN "Ok" ELSE parsed.err
                /\ guess' = IF parsed.ok THEN parsed.word ELSE <<>>
    /\ UNCHANGED <<session, last_key>>

NextParse == ParseCurrent

SpecParse == InitParse /\ [][NextParse]_vars

(***************************************************************************)
(* The construction of a session, Wordle::new, followed by the loop.       *)
(***************************************************************************)
\* the lines of words.txt: a file with the words of WordList, one of them
\* twice and some in lower case; an empty file; a file with one word; a file
\* one line of which has two letters
WordFiles ==
    { << <<"b", "a", "b", "b", "b">>, <<"A", "A", "B", "B", "B">>,
         <<"b", "a", "a", "B", "B">>, <<"B", "A", "B", "B", "B">> >>,
      << >>,
      << <<"a", "a", "b", "b", "b">> >>,
      << <<"a", "b">>, <<"A", "A", "A", "A", "A">>,
         <<"B", "A", "B", "B", "B">> >> }

\* load_words: the set of the lines, in upper case
LoadWords(lines) == {ToAsciiUppercase(lines[i]) : i \in DOMAIN lines}

\* before Wordle::new there is no session: every field holds a placeholder
InitNew ==
    /\ round = 0
    /\ valid_words = {}
    /\ used_chars = <<>>
    /\ answer = <<>>
    /\ history = <<>>
    /\ current = <<>>
    /\ solved = FALSE
    /\ err_msg = ""
    /\ running = FALSE
    /\ guess = <<>>
    /\ phase = "new"
    /\ last_key = NoKey

\* Wordle::load_words().expect("failed to load words")
NewLoadWords ==
    /\ phase = "new"
    /\ \/ \E lines \in WordFiles :
              /\ valid_words' = LoadWords(lines)
              /\ phase' = "loaded"
       \/ \* File::open fails
          /\ phase' = "panic: failed to load words"
          /\ UNCHANGED valid_words
    /\ UNCHANGED <<round, used_chars, answer, history, current, solved,
                   err_msg, running, guess, last_key>>

\* Wordle::draw_word(&valid_words).expect("failed to draw word") and the
\* rest of Wordle::new; main then calls run
NewDrawWord ==
    /\ phase = "loaded"
    /\ IF DrawWordPanic(valid_words) # ""
       THEN /\ phase' = "panic: " \o DrawWordPanic(valid_words)
            /\ UNCHANGED <<round, used_chars, answer, history, current,
                           solved, err_msg, running>>
       ELSE IF DrawWord(valid_words) = {}
       THEN /\ phase' = "panic: failed to draw word"
            /\ UNCHANGED <<round, used_chars, answer, history, current,
                           solved, err_msg, running>>
       ELSE /\ \E a \in DrawWord(valid_words) : answer' = a
            /\ round' = 1
            /\ used_chars' = NewUsedChars
            /\ history' = <<>>
            /\ current' = <<>>
            /\ solved' = FALSE
            /\ err_msg' = ""
            /\ running' = TRUE
            /\ phase' = "loop"
    /\ UNCHANGED <<valid_words, guess, last_key>>

NextNew ==
    NewLoadWords \/ NewDrawWord \/ KeyEsc \/ KeyTab \/ KeyChar
        \/ KeyBackspace \/ KeyEnter \/ KeyOther

SpecNew == InitNew /\ [][NextNew]_vars

(***************************************************************************)
(* The ordering of TileState in src/utils/tile.rs: PartialEq and           *)
(* PartialOrd are derived, so the variants compare by their position in    *)
(* the declaration.                                                        *)
(***************************************************************************)
\* the position of a variant in `enum TileState`
Discriminant(state) ==
    CASE state = Correct -> 0
      [] state = Present -> 1
      [] state = Absent -> 2
      [] state = Unused -> 3

\* the derived partial_cmp
PartialCmp(a, b) ==
    IF Discriminant(a) < Discriminant(b) THEN "Less"
    ELSE IF Discriminant(a) = Discriminant(b) THEN "Equal"
    ELSE "Greater"

\* two values of TileState, held in `guess`; no session exists
InitOrder ==
    /\ round = 0
    /\ valid_words = {}
    /\ used_chars = <<>>
    /\ answer = <<>>
    /\ history = <<>>
    /\ current = <<>>
    /\ solved = FALSE
    /\ err_msg = ""
    /\ running = FALSE
    /\ \E a \in TileState, b \in TileState : guess = <<a, b>>
    /\ phase = "states"
    /\ last_key = NoKey

\* the result of a comparison, as phase shows it
Show(b) == IF b THEN "true" ELSE "false"

\* a.partial_cmp(&b): phase holds the operator and its result
OrderPartialCmp ==
    /\ phase = "states"
    /\ phase' = "partial_cmp: " \o PartialCmp(guess[1], guess[2])
    /\ UNCHANGED <<session, guess, last_key>>

\* a < b: phase holds the operator and its result
OrderLt ==
    /\ phase = "states"
    /\ phase' = "lt: " \o Show(PartialCmp(guess[1], guess[2]) = "Less")
    /\ UNCHANGED <<session, guess, last_key>>

\* a <= b: phase holds the operator and its result
OrderLe ==
    /\ phase = "states"
    /\ phase' = "le: " \o Show(PartialCmp(guess[1], guess[2]) # "Greater")
    /\ UNCHANGED <<session, guess, last_key>>

\* a > b: phase holds the operator and its result
OrderGt ==
    /\ phase = "states"
    /\ phase' = "gt: " \o Show(PartialCmp(guess[1], guess[2]) = "Greater")
    /\ UNCHANGED <<session, guess, last_key>>

\* a >= b: phase holds the operator and its result
OrderGe ==
    /\ phase = "states"
    /\ phase' = "ge: " \o Show(PartialCmp(guess[1], guess[2]) # "Less")
    /\ UNCHANGED <<session, guess, last_key>>

\* a == b: phase holds the operator and its result
OrderEq ==
    /\ phase = "states"
    /\ phase' = "eq: " \o Show(guess[1] = guess[2])
    /\ UNCHANGED <<session, guess, last_key>>

\* a != b: phase holds the operator and its result
OrderNe ==
    /\ phase = "states"
    /\ phase' = "ne: " \o Show(guess[1] # guess[2])
    /\ UNCHANGED <<session, guess, last_key>>

NextOrder ==
    OrderPartialCmp \/ OrderLt \/ OrderLe \/ OrderGt \/ OrderGe \/ OrderEq
        \/ OrderNe

SpecOrder == InitOrder /\ [][NextOrder]_vars

(***************************************************************************)
(* The scoring function on its own: compare_test sets the answer, builds   *)
(* the guess with Word::from and calls compare on it.                      *)
(***************************************************************************)
InitCompare ==
    /\ \E a \in CompareAnswers : New(WordList, a)
    /\ \E g \in CompareWords : guess = WordFrom(g)
    /\ phase = "parsed"
    /\ last_key = NoKey

CompareGuess ==
    /\ phase = "parsed"
    /\ guess' = Compare(answer, guess)
    /\ phase' = "scored"
    /\ UNCHANGED <<session, last_key>>

CompareAgain ==
    /\ phase = "scored"
    /\ guess' = Compare(answer, guess)
    /\ phase' = "rescored"
    /\ UNCHANGED <<session, last_key>>

NextCompare == CompareGuess \/ CompareAgain

SpecCompare == InitCompare /\ [][NextCompare]_vars

(***************************************************************************)
(* compare, one turn of its loops at a time.  phase holds the position in  *)
(* the function (pc, and the index i of the tile the loop is at) and the   *)
(* local answer_map.                                                       *)
(***************************************************************************)
InitSteps ==
    /\ \E a \in CompareAnswers : New(WordList, a)
    /\ \E g \in CompareWords : guess = WordFrom(g)
    /\ phase = [pc |-> "parsed", i |-> 0, answer_map |-> AnswerMap(<<>>)]
    /\ last_key = NoKey

\* the count of every char of the answer
StepAnswerMap ==
    /\ phase.pc = "parsed"
    /\ phase' = [pc |-> "check correct", i |-> 1,
                 answer_map |-> AnswerMap(answer)]
    /\ UNCHANGED <<session, guess, last_key>>

\* one turn of the first loop
StepCorrect ==
    /\ phase.pc = "check correct"
    /\ LET i == phase.i
           tile == guess[i]
       IN  IF i > Len(guess)
           THEN /\ phase' = [phase EXCEPT !.pc = "check present", !.i = 1]
                /\ UNCHANGED guess
           ELSE IF answer[i] = tile.letter
           THEN /\ guess' = [guess EXCEPT ![i].state = Correct]
                /\ phase' =
                       [phase EXCEPT
                           !.i = i + 1,
                           !.answer_map =
                               IF tile.letter \in DOMAIN phase.answer_map
                               THEN [@ EXCEPT ![tile.letter] = Dec(@)]
                               ELSE @]
           ELSE /\ phase' = [phase EXCEPT !.i = i + 1]
                /\ UNCHANGED guess
    /\ UNCHANGED <<session, last_key>>

\* a turn of the second loop whose match arm has no `if *val > 0`
StepPresentNoGuard ==
    /\ phase.pc = "check present"
    /\ LET i == phase.i
           tile == guess[i]
       IN  IF i > Len(guess)
           THEN /\ phase' = [phase EXCEPT !.pc = "done"]
                /\ UNCHANGED guess
           ELSE IF tile.state = Correct
           THEN /\ phase' = [phase EXCEPT !.i = i + 1]
                /\ UNCHANGED guess
           ELSE IF tile.letter \in DOMAIN phase.answer_map
           THEN /\ guess' = [guess EXCEPT ![i].state = Present]
                /\ phase' = [phase EXCEPT
                                 !.i = i + 1,
                                 !.answer_map[tile.letter] = Dec(@)]
           ELSE /\ guess' = [guess EXCEPT ![i].state = Absent]
                /\ phase' = [phase EXCEPT !.i = i + 1]
    /\ UNCHANGED <<session, last_key>>

\* one turn of the second loop
StepPresent ==
    /\ phase.pc = "check present"
    /\ LET i == phase.i
           tile == guess[i]
       IN  IF i > Len(guess)
           THEN /\ phase' = [phase EXCEPT !.pc = "done"]
                /\ UNCHANGED guess
           ELSE IF tile.state = Correct
           THEN /\ phase' = [phase EXCEPT !.i = i + 1]
                /\ UNCHANGED guess
           ELSE IF /\ tile.letter \in DOMAIN phase.answer_map
                   /\ phase.answer_map[tile.letter] > 0
           THEN /\ guess' = [guess EXCEPT ![i].state = Present]
                /\ phase' = [phase EXCEPT
                                 !.i = i + 1,
                                 !.answer_map[tile.letter] = Dec(@)]
           ELSE /\ guess' = [guess EXCEPT ![i].state = Absent]
                /\ phase' = [phase EXCEPT !.i = i + 1]
    /\ UNCHANGED <<session, last_key>>

NextSteps == StepAnswerMap \/ StepCorrect \/ StepPresent

SpecSteps == InitSteps /\ [][NextSteps]_vars

(***************************************************************************)
(* compare followed by update_status, as in update_status_test.            *)
(***************************************************************************)
\* update_status_test: update_status on the guess that compare has scored
CompareUpdateStatus ==
    /\ phase = "scored"
    /\ history' = Append(history, guess)
    /\ used_chars' = UpdateUsedChars(used_chars, guess, 1)
    /\ solved' = AllCorrect(guess)
    /\ phase' = "updated"
    /\ UNCHANGED <<round, valid_words, answer, current, err_msg, running,
                   guess, last_key>>

NextUpdate == CompareGuess \/ CompareUpdateStatus

SpecUpdate == InitCompare /\ [][NextUpdate]_vars

(***************************************************************************)
(* Properties of compare.                                                  *)
(***************************************************************************)
LettersOf(word) == [i \in DOMAIN word |-> word[i].letter]
StatesOf(word) == [i \in DOMAIN word |-> word[i].state]

Occurrences(c, s) == Cardinality({i \in DOMAIN s : s[i] = c})

\* the positions of letter c in word whose tile is in one of the states
TilesOf(word, c, states) ==
    {i \in DOMAIN word : word[i].letter = c /\ word[i].state \in states}

Scored == phase \in {"scored", "rescored"}

\* every letter that occurs in the guess or in the answer
LettersInPlay == {guess[i].letter : i \in DOMAIN guess}
                     \cup {answer[i] : i \in DOMAIN answer}

Trait == <<"T", "R", "A", "I", "T">>

\* C1: for every letter c, the tiles of c that compare marks Correct or
\* Present are at most as many as the occurrences of c in the answer.
C1_CountBound ==
    Scored =>
        \A c \in LettersInPlay :
            Cardinality(TilesOf(guess, c, {Correct, Present}))
                <= Occurrences(c, answer)

\* a guess with three T against an answer with two: exactly two T are marked
C1_Witness ==
    /\ phase = "scored"
    /\ answer = Trait
    /\ LettersOf(guess) = <<"T", "X", "T", "T", "X">>
    /\ Cardinality(TilesOf(guess, "T", {Correct, Present})) = 2

\* C2: a guess equal to the answer letter for letter is scored all Correct.
C2_EqualAllCorrect ==
    (Scored /\ LettersOf(guess) = answer) =>
        \A i \in DOMAIN guess : guess[i].state = Correct

C2_Witness ==
    /\ phase = "scored"
    /\ LettersOf(guess) = answer
    /\ answer = Trait
    /\ StatesOf(guess) = <<Correct, Correct, Correct, Correct, Correct>>

\* the positions of the guess that hold c and are no positional match
Unmatched(c) == {i \in DOMAIN guess : guess[i].letter = c /\ answer[i] # c}
\* the positional matches of c
Matched(c) == {i \in DOMAIN guess : guess[i].letter = c /\ answer[i] = c}

Min(a, b) == IF a <= b THEN a ELSE b

\* C3: among the positions of the guess that hold c and are no positional
\* match, exactly the leftmost r are Present and the later ones Absent, where
\* r is the smaller of their number and of the occurrences of c in the answer
\* less its positional matches.
C3_LeftmostPresent ==
    Scored =>
        \A c \in LettersInPlay :
            LET r == Min(Cardinality(Unmatched(c)),
                         Occurrences(c, answer) - Cardinality(Matched(c)))
            IN  \A i \in Unmatched(c) :
                    guess[i].state =
                        IF Cardinality({j \in Unmatched(c) : j <= i}) <= r
                        THEN Present
                        ELSE Absent

\* answer TRAIT, guess TXTTX: the left one of the two unmatched T is Present
C3_Witness ==
    /\ phase = "scored"
    /\ answer = Trait
    /\ LettersOf(guess) = <<"T", "X", "T", "T", "X">>
    /\ StatesOf(guess) = <<Correct, Absent, Present, Absent, Absent>>

\* C4: when the guess matches every occurrence of c in the answer
\* positionally, every other occurrence of c in the guess is Absent, also to
\* the left of a positional match.
C4_MatchesClaimedFirst ==
    Scored =>
        \A c \in LettersInPlay :
            (\A i \in DOMAIN answer : answer[i] = c => guess[i].letter = c)
                => \A i \in Unmatched(c) : guess[i].state = Absent

\* answer TRAIT, guess TXTXT: the T in the middle stands left of a match
C4_Witness ==
    /\ phase = "scored"
    /\ answer = Trait
    /\ LettersOf(guess) = <<"T", "X", "T", "X", "T">>
    /\ StatesOf(guess) = <<Correct, Absent, Absent, Absent, Correct>>

\* C5: scoring an already scored word against the same answer changes no
\* tile, and compare changes no field of the session.
C5_Idempotent ==
    [][/\ (phase = "scored" /\ phase' = "rescored") => guess' = guess
       /\ (phase' # phase) => UNCHANGED session]_vars

\* a second scoring of a word that has Correct, Present and Absent tiles
C5_Witness ==
    /\ phase = "rescored"
    /\ \E i, j \in DOMAIN guess :
           /\ i < j
           /\ guess[i].letter = guess[j].letter
           /\ guess[i].state = Present
           /\ guess[j].state = Absent
    /\ \E i \in DOMAIN guess : guess[i].state = Correct

(***************************************************************************)
(* Properties of the keyboard hints.                                       *)
(***************************************************************************)
\* the order Correct > Present > Absent > Unused
SeverityRank(state) ==
    CASE state = Correct -> 3
      [] state = Present -> 2
      [] state = Absent -> 1
      [] state = Unused -> 0

Max(a, b) == IF a >= b THEN a ELSE b

RECURSIVE MaxOf(_)
MaxOf(S) ==
    IF S = {} THEN 0
    ELSE LET x == CHOOSE x \in S : TRUE IN Max(x, MaxOf(S \ {x}))

\* a step of run that accepts a guess: one scored word more in the history
Accepted == Len(history') = Len(history) + 1

LastGuess == history[Len(history)]

\* C6: after update_status the hint of every letter of the scored word is the
\* maximum of its hint before and of the states of its tiles in the word.
C6_MergeIsMax ==
    [][Accepted =>
          LET scored == history'[Len(history')]
          IN  \A i \in DOMAIN scored :
                  LET c == scored[i].letter
                  IN  SeverityRank(used_chars'[c]) =
                          Max(SeverityRank(used_chars[c]),
                              MaxOf({SeverityRank(scored[j].state) :
                                        j \in TilesOf(scored, c, TileState)}))
      ]_vars

\* C7: in every step other than a restart no hint decreases in severity, and
\* a hint that is Correct stays Correct.
C7_HintsMonotone ==
    [][(~KeyTab) =>
          \A c \in DOMAIN used_chars :
              /\ c \in DOMAIN used_chars'
              /\ SeverityRank(used_chars'[c]) >= SeverityRank(used_chars[c])
              /\ used_chars[c] = Correct => used_chars'[c] = Correct
      ]_vars

\* the first guess marked every tile of c Correct, the second has a tile of c
\* that is Present or Absent, and the hint of c is still Correct
C7_Witness ==
    /\ Len(history) >= 2
    /\ \E c \in AZ :
           /\ TilesOf(history[1], c, {Correct}) # {}
           /\ TilesOf(history[1], c, {Present, Absent, Unused}) = {}
           /\ TilesOf(history[2], c, {Present, Absent}) # {}
           /\ used_chars[c] = Correct

\* C8: when the session is Won, every letter of the answer has hint Correct.
C8_WonAllCorrect ==
    solved => \A i \in DOMAIN answer : used_chars[answer[i]] = Correct

(***************************************************************************)
(* Properties of the end of a game.                                        *)
(***************************************************************************)
\* ROUND accepted guesses since the last restart, none equal to the answer
SixWrongGuesses ==
    /\ Len(history) = ROUND
    /\ \A k \in DOMAIN history : LettersOf(history[k]) # answer

\* C9: after ROUND accepted guesses none of which equals the answer the
\* session is Lost, round > ROUND and solved is false, and no further guess
\* is accepted.
C9_LostAfterSix ==
    /\ [](SixWrongGuesses =>
             round > ROUND /\ ~solved /\ GameState = "Lost")
    /\ [][SixWrongGuesses => ~Accepted]_vars

\* a lost game in which the player went on typing and pressed Enter
C9_Witness ==
    /\ SixWrongGuesses
    /\ GameState = "Lost"
    /\ round = ROUND + 1

\* C10: an accepted guess equal to the answer makes the session Won at once,
\* at every round up to ROUND, and never Lost.
C10_WinAtAnyRound ==
    (history # <<>> /\ LettersOf(LastGuess) = answer) => GameState = "Won"

\* the win with the last guess, where round passes ROUND as well
C10_Witness ==
    /\ Len(history) = ROUND
    /\ LettersOf(LastGuess) = answer
    /\ round > ROUND
    /\ GameState = "Won"

(***************************************************************************)
(* Properties of the game loop.                                            *)
(***************************************************************************)
AllUnused == \A c \in AZ : c \in DOMAIN used_chars /\ used_chars[c] = Unused

\* C11: game_restart is enabled in every state of the loop, Playing, Won or
\* Lost, and after it round = 1, the history is empty, all 26 hints are
\* Unused, solved is false, and the input and the error message are empty.
C11_Restart ==
    /\ running => ENABLED KeyTab
    /\ last_key.key = "Tab" =>
           /\ round = 1
           /\ history = <<>>
           /\ AllUnused
           /\ ~solved
           /\ GameState = "Playing"
           /\ current = <<>>
           /\ err_msg = ""

\* a restart of a lost game
C11_Witness ==
    /\ last_key = [key |-> "Tab", state |-> "Lost"]
    /\ round = 1
    /\ AllUnused

\* C12: in a finished game, Won or Lost, every key but Tab leaves round,
\* history, hints, solved, answer and the input unchanged.
C12_TerminalIgnoresKeys ==
    [][(GameState # "Playing" /\ last_key'.key # "Tab") =>
          UNCHANGED <<round, history, used_chars, solved, answer, current>>
      ]_vars

\* Enter in a won game before the last round
C12_Witness ==
    /\ last_key = [key |-> "Enter", state |-> "Won"]
    /\ solved
    /\ round <= ROUND

\* C13: in the loop of src/main.rs, once solved is true no key changes round,
\* history, hints or solved.
C13_MainWonIsTerminal ==
    [][solved => UNCHANGED <<round, history, used_chars, solved>>]_vars

\* C14: a submission that parse_input rejects changes only the error
\* message.
C14_RejectedChangesNothing ==
    [][(KeyEnter /\ err_msg' # "") =>
          UNCHANGED <<round, history, used_chars, solved, answer, valid_words,
                      current, running>>
      ]_vars

\* an input that is not ASCII, rejected in the third round
C14_Witness ==
    /\ err_msg = "not ascii"
    /\ round = 3
    /\ Len(history) = 2
    /\ current # <<>>

(***************************************************************************)
(* Properties of parse_input.                                              *)
(***************************************************************************)
Parsed == phase # "typed"

HasNonAscii(s) == \E i \in DOMAIN s : s[i] \in NonAscii

C16_NonLetterIsNotAscii ==
    (Parsed /\ \E i \in DOMAIN current : current[i] \notin AZ)
        => phase = "not ascii"

\* C16, amended: an input is rejected as not ascii exactly when its trimmed
\* form has a char that is not ASCII, whatever its length.
C16_NonAsciiIsNotAscii ==
    Parsed => (phase = "not ascii" <=> HasNonAscii(Trim(current)))

\* an input of 5 bytes that is not ASCII
C16_Witness ==
    /\ phase = "not ascii"
    /\ StrLen(Trim(current)) = WORD_LEN

(***************************************************************************)
(* Properties of the history and of the answer.                            *)
(***************************************************************************)
\* C17: the history holds exactly round - 1 scored guesses.
C17_HistoryLength == Len(history) = round - 1

\* a rejected submission after three accepted ones
C17_Witness ==
    /\ Len(history) = 3
    /\ round = 4
    /\ err_msg # ""

IsPrefix(s, t) == Len(s) <= Len(t) /\ SubSeq(t, 1, Len(s)) = s

\* C18: in every step other than a restart the history before the step is
\* a prefix of the history after it.
C18_AppendOnly ==
    [][last_key'.key # "Tab" => IsPrefix(history, history')]_vars

\* three guesses, the first two of them different
C18_Witness ==
    /\ Len(history) = 3
    /\ LettersOf(history[1]) # LettersOf(history[2])

\* C19: the answer is a member of valid_words, the one word of a set of one
\* word, and no step changes valid_words.
C19_AnswerInWords ==
    /\ [](/\ answer \in valid_words
          /\ Cardinality(valid_words) = 1 => valid_words = {answer})
    /\ [][valid_words' = valid_words]_vars

\* a restart with a set of one word
C19_Witness ==
    /\ last_key.key = "Tab"
    /\ valid_words = OneWordList
    /\ answer \in OneWordList

\* draw_word has been called
DrawWordCalled ==
    phase \notin {"new", "loaded", "panic: failed to load words"}

\* C20: draw_word on an empty set panics with the message of its own check,
\* before any draw, and no session is constructed.
C20_EmptyDrawPanics ==
    (DrawWordCalled /\ valid_words = {}) =>
        /\ phase = "panic: Error: empty word set"
        /\ ~running
        /\ answer = <<>>
        /\ round = 0

C20_Witness ==
    /\ phase = "panic: Error: empty word set"
    /\ valid_words = {}

(***************************************************************************)
(* Properties of load_words.                                               *)
(***************************************************************************)
\* C21: load_words on a file without lines returns an error, never the
\* empty set: a word set that has been loaded is not empty.
C21_EmptyLoadFails == phase = "loaded" => valid_words # {}

\* a word of exactly WORD_LEN uppercase ASCII letters
WellFormed(w) == Len(w) = WORD_LEN /\ \A i \in DOMAIN w : w[i] \in AZ

\* C22: whatever the lines of the file, every word of the loaded set has
\* exactly 5 uppercase ASCII letters, so the answer of the session has 5
\* letters and compare never indexes past the end of the answer.
C22_LoadedWordsWellFormed ==
    /\ \A w \in valid_words : WellFormed(w)
    /\ running => Len(answer) = WORD_LEN
    /\ phase # "panic: index out of bounds"

(***************************************************************************)
(* Properties of the output.                                               *)
(***************************************************************************)
\* C23: output that contains the answer is produced only in a terminal
\* state, never while the session is Playing (before the first guess
\* included).
C23_AnswerOnlyWhenTerminal == AnswerOutput => GameState # "Playing"

(***************************************************************************)
(* Properties of the definition page.                                      *)
(***************************************************************************)
\* C24: show_word_def becomes true only while is_game_over holds, and a
\* step that asks for the definition page or draws it, the lookup found or
\* failed, changes neither round nor history nor the hints.
C24_DefinitionOnlyWhenOver ==
    [][/\ (~ShowWordDef /\ ShowWordDef') => IsGameOver
       /\ (ShowWordDef' /\ phase' # phase)
              => UNCHANGED <<round, history, used_chars>>]_vars

C24_Witness ==
    /\ phase = "definition: offline"
    /\ IsGameOver
    /\ ~solved
    /\ Len(history) = ROUND

(***************************************************************************)
(* More properties of compare and update_status.                           *)
(***************************************************************************)
\* C25: compare marks tile i Correct if and only if guess[i] = answer[i];
\* so the scored word is all-Correct only when the guess equals the answer,
\* and update_status sets solved only on such a guess.
C25_CorrectIffSameLetter ==
    /\ Scored =>
           /\ \A i \in DOMAIN guess :
                  guess[i].state = Correct <=> guess[i].letter = answer[i]
           /\ AllCorrect(guess) => LettersOf(guess) = answer
    /\ phase = "updated" => (solved <=> LettersOf(guess) = answer)

C25_Witness ==
    /\ phase = "updated"
    /\ solved
    /\ answer = Trait
    /\ \A i \in DOMAIN guess : used_chars[guess[i].letter] = Correct

\* C26: a letter whose keyboard hint is Absent does not occur in the answer.
C26_AbsentNotInAnswer ==
    \A c \in DOMAIN used_chars :
        used_chars[c] = Absent => Occurrences(c, answer) = 0

\* the letters of the guesses of the history
Guessed == UNION {{history[k][i].letter : i \in DOMAIN history[k]} :
                     k \in DOMAIN history}

\* C27: a letter's hint is Unused if and only if the letter occurs in no
\* guess of the history since the last restart, and an accepted guess
\* changes the hint of no letter outside that guess.
C27_UnusedIffNotGuessed ==
    /\ [](\A c \in DOMAIN used_chars : used_chars[c] = Unused <=> c \notin Guessed)
    /\ [][Accepted =>
              \A c \in DOMAIN used_chars :
                  (\A i \in DOMAIN LastGuess' : LastGuess'[i].letter # c)
                      => used_chars'[c] = used_chars[c]]_vars

C27_Witness ==
    /\ Len(history) = 2
    /\ LettersOf(history[1]) = <<"A", "A", "A", "A", "A">>
    /\ LettersOf(history[2]) = <<"B", "A", "B", "B", "B">>
    /\ used_chars["B"] # Unused
    /\ used_chars["C"] = Unused

(***************************************************************************)
(* More properties of the game loop.                                       *)
(***************************************************************************)
\* C28: an accepted submission (Enter in a game that is Playing, no error)
\* appends exactly one scored word whose letters are the trimmed, uppercased
\* input in order, adds exactly 1 to round, clears the input buffer and the
\* error message, and leaves the answer and the word set unchanged.
C28_AcceptedSubmission ==
    [][(GameState = "Playing" /\ KeyEnter /\ err_msg' = "") =>
          /\ Len(history') = Len(history) + 1
          /\ IsPrefix(history, history')
          /\ LettersOf(LastGuess') = ToAsciiUppercase(Trim(current))
          /\ \A i \in DOMAIN LastGuess' : LastGuess'[i].state # Unused
          /\ round' = round + 1
          /\ current' = <<>>
          /\ answer' = answer
          /\ valid_words' = valid_words]_vars

C28_Witness ==
    /\ Len(history) = 2
    /\ round = 3
    /\ LettersOf(history[2]) \in valid_words \ {answer}
    /\ current = <<>>
    /\ err_msg = ""
    /\ GameState = "Playing"

\* C29: in every reachable state 1 <= round <= 7 and the history holds at
\* most 6 scored guesses; round becomes 7 only by the sixth accepted guess;
\* the u8 counter never wraps around.
C29_RoundBounds ==
    /\ [](/\ 1 <= round
          /\ round <= ROUND + 1
          /\ Len(history) <= ROUND)
    /\ [][(round' = ROUND + 1 /\ round # ROUND + 1) =>
              (Accepted /\ Len(history') = ROUND)]_vars
    /\ [][round' # round => (round' = round + 1 \/ round' = 1)]_vars

C29_Witness == round = ROUND + 1 /\ Len(history) = ROUND /\ ~solved

(***************************************************************************)
(* Properties of the ordering of TileState.                                *)
(***************************************************************************)
\* C30: the ordering of the letter states ranks Correct > Present > Absent
\* > Unused: a > b holds exactly when a has the higher rank of the table
\* Correct = 3, Present = 2, Absent = 1, Unused = 0, whatever the order in
\* which the variants are declared.
C30_OrderIsSeverityRank ==
    phase \in {"gt: true", "gt: false"} =>
        (phase = "gt: true"
            <=> SeverityRank(guess[1]) > SeverityRank(guess[2]))

(***************************************************************************)
(* Properties of the counts of compare.                                    *)
(***************************************************************************)
\* C31: during compare no count of the answer's letters goes below zero:
\* a count is decremented, in the first loop or in the second, only while
\* it is positive, so it never wraps around and never exceeds the number
\* of occurrences of its letter in the answer.
C31_CountsNeverUnderflow ==
    /\ [](\A c \in DOMAIN phase.answer_map :
              phase.answer_map[c] <= Occurrences(c, answer))
    /\ [][\A c \in DOMAIN phase.answer_map :
              phase'.answer_map[c] # phase.answer_map[c]
                  => /\ phase.answer_map[c] > 0
                     /\ phase'.answer_map[c] = phase.answer_map[c] - 1]_vars

\* both loops have decremented, and a count has reached zero with a further
\* tile of its letter left Absent
C31_Witness ==
    /\ phase.pc = "done"
    /\ \E c \in DOMAIN phase.answer_map :
           /\ phase.answer_map[c] = 0
           /\ TilesOf(guess, c, {Correct}) # {}
           /\ TilesOf(guess, c, {Present}) # {}
           /\ TilesOf(guess, c, {Absent}) # {}

C33_HintMapComplete ==
    /\ [](round >= 1 =>
              /\ AZ \subseteq DOMAIN used_chars
              /\ \A c \in AZ : used_chars[c] \in TileState
              /\ ~KeyboardUnreachable(used_chars))
    /\ [][DOMAIN used_chars \subseteq DOMAIN used_chars']_vars

\* a restart of a game that was won, after Wordle::new
C33_Witness ==
    /\ last_key = [key |-> "Tab", state |-> "Won"]
    /\ phase = "loop"
    /\ DOMAIN used_chars = AZ

====
